---- MODULE Spec2Model ----
(***************************************************************************)
(* nistats/regression.py: OLSModel, ARModel, RegressionResults and         *)
(* SimpleRegressionResults.                                                *)
(*                                                                         *)
(* Arrays are sequences of rows, each row a sequence of numbers; a 1-D     *)
(* response of length n is an n x 1 array.  float64 arithmetic is taken as *)
(* exact: a number is an integer or a reduced fraction [num, den], and a   *)
(* fraction with den = 0 stands for the non-finite result of a division by *)
(* zero.  A Python object is a record whose domain is the set of           *)
(* attributes that have been assigned on it.                               *)
(***************************************************************************)
EXTENDS Integers, Sequences, FiniteSets, TLC

VARIABLES est, obj, ret, arg

vars == <<est, obj, ret, arg>>

(***************************************************************************)
(* Bounds of the input universe.                                           *)
(***************************************************************************)
MaxRows == 4
MaxOrder == 2

\* The numbers of regressors; the rank and the pseudoinverse below are
\* written out for designs of at most two columns.
ColCounts == {1, 2}

(***************************************************************************)
(* Integer and fraction arithmetic.                                        *)
(***************************************************************************)
Abs(a) == IF a < 0 THEN -a ELSE a

RECURSIVE GCD(_, _)
GCD(a, b) == IF b = 0 THEN Abs(a) ELSE GCD(b, a % Abs(b))

RECURSIVE SumSeq(_)
SumSeq(s) == IF s = <<>> THEN 0 ELSE Head(s) + SumSeq(Tail(s))

RECURSIVE ProdSeq(_)
ProdSeq(s) == IF s = <<>> THEN 1 ELSE Head(s) * ProdSeq(Tail(s))

RECURSIVE GCDSeq(_)
GCDSeq(s) == IF s = <<>> THEN 0 ELSE GCD(Head(s), GCDSeq(Tail(s)))

Sign(a) == IF a < 0 THEN -1 ELSE IF a = 0 THEN 0 ELSE 1

\* num/den in lowest terms with den >= 0; x/0 is kept as sign(x)/0.
Frac(num, den) ==
    IF den = 0 THEN [num |-> Sign(num), den |-> 0]
    ELSE LET g == GCD(num, den)
             s == Sign(den)
         IN  [num |-> (s * num) \div g, den |-> (s * den) \div g]

FracDivInt(q, k) == Frac(q.num, q.den * k)

(***************************************************************************)
(* Integer arrays.                                                         *)
(***************************************************************************)
NRows(A) == Len(A)

NCols(A) == Len(A[1])

\* The sequence s with its elements computed.
Eval(s) == s \o <<>>

Transpose(A) ==
    Eval([j \in 1..NCols(A) |-> Eval([t \in 1..NRows(A) |-> A[t][j]])])

Dot(A, B) ==
    Eval([t \in 1..NRows(A) |->
        Eval([j \in 1..NCols(B) |->
            SumSeq([l \in 1..NRows(B) |-> A[t][l] * B[l][j]])])])

Scale(c, A) ==
    Eval([t \in 1..NRows(A) |-> Eval([j \in 1..Len(A[t]) |-> c * A[t][j]])])

Minus(A, B) ==
    Eval([t \in 1..NRows(A) |-> Eval([j \in 1..Len(A[t]) |-> A[t][j] - B[t][j]])])

Flat(A) ==
    Eval([i \in 1..(NRows(A) * NCols(A)) |->
             A[((i - 1) \div NCols(A)) + 1][((i - 1) % NCols(A)) + 1]])

\* An array of fractions sharing one denominator, in lowest terms.
FracArray(N, den) ==
    LET g == GCD(GCDSeq(Flat(N)), den)
        s == Sign(den)
    IN  IF g = 0 THEN [num |-> N, den |-> 0]
        ELSE [num |-> Eval([t \in 1..NRows(N) |->
                          Eval([j \in 1..Len(N[t]) |-> (s * N[t][j]) \div g])]),
              den |-> (s * den) \div g]

\* (r ** 2).sum(0): the per-column sum of squares of an array of fractions.
SumSq0(R) ==
    Eval([j \in 1..NCols(R.num) |->
        Frac(SumSeq([t \in 1..NRows(R.num) |-> R.num[t][j] * R.num[t][j]]),
             R.den * R.den)])

(***************************************************************************)
(* Python slices of the leading axis.                                      *)
(***************************************************************************)
\* X[k:]
RowsFrom(X, k) == IF k >= Len(X) THEN <<>> ELSE SubSeq(X, k + 1, Len(X))

\* X[0:-k] for k >= 1
RowsUpToNeg(X, k) == IF k >= Len(X) THEN <<>> ELSE SubSeq(X, 1, Len(X) - k)

\* X[k:] = V, where V has the shape of X[k:]
AssignFrom(X, k, V) == IF k >= Len(X) THEN X ELSE SubSeq(X, 1, k) \o V

(***************************************************************************)
(* whiten.  A call returns the whitened array wX together with X, the      *)
(* contents of the caller's array when the call returns.                   *)
(***************************************************************************)
OLSModel_whiten(self, X) == [wX |-> X, X |-> X]

\* One pass of the loop body for lag i (0-based), on the buffers named
\* by dst (assigned) and src (read on the right of rho[i] *).
whiten_lag(bufs, dst, src, rho, i) ==
    [bufs EXCEPT ![dst] =
        AssignFrom(bufs[dst], i + 1,
                   Minus(RowsFrom(bufs[dst], i + 1),
                         Scale(rho[i + 1], RowsUpToNeg(bufs[src], i + 1))))]

RECURSIVE whiten_loop(_, _, _, _, _, _)
whiten_loop(bufs, dst, src, rho, i, order) ==
    IF i >= order THEN bufs
    ELSE whiten_loop(whiten_lag(bufs, dst, src, rho, i), dst, src, rho, i + 1, order)

\* The loop writes to the caller's array: _X = X instead of _X = X.copy().
ARModel_whiten_nocopy(self, X) ==
    LET bufs == whiten_loop([X |-> X, _X |-> X], "X", "X", self.rho, 0, self.order)
    IN  [wX |-> bufs["X"], X |-> bufs["X"]]

\* The loop subtracts the already filtered rows: rho[i] * _X[0:-(i+1)].
ARModel_whiten_filtered(self, X) ==
    LET bufs == whiten_loop([X |-> X, _X |-> X], "_X", "_X", self.rho, 0, self.order)
    IN  [wX |-> bufs["_X"], X |-> bufs["X"]]

ARModel_whiten(self, X) ==
    LET bufs == whiten_loop([X |-> X, _X |-> X], "_X", "X", self.rho, 0, self.order)
    IN  [wX |-> bufs["_X"], X |-> bufs["X"]]

\* self.whiten(X): the method of the instance's class.
whiten(self, X) ==
    IF self.cls = "ARModel" THEN ARModel_whiten(self, X) ELSE OLSModel_whiten(self, X)

(***************************************************************************)
(* The numerics library, for arrays of one or two columns: the rank and    *)
(* the Moore-Penrose pseudoinverse from the Gram matrix G = A^T A.         *)
(***************************************************************************)
Gram(A) == Dot(Transpose(A), A)

Det(G) == IF Len(G) = 1 THEN G[1][1] ELSE G[1][1] * G[2][2] - G[1][2] * G[2][1]

Adj(G) == IF Len(G) = 1 THEN << <<1>> >>
          ELSE << <<G[2][2], -G[1][2]>>, <<-G[2][1], G[1][1]>> >>

Trace(G) == SumSeq([j \in 1..Len(G) |-> G[j][j]])

\* matrix_rank(A, eps): full column rank iff det G # 0; rank 0 iff A = 0.
matrix_rank(A) ==
    IF Det(Gram(A)) # 0 THEN NCols(A)
    ELSE IF Trace(Gram(A)) = 0 THEN 0 ELSE 1

\* spl.pinv(A): (A^T A)^-1 A^T at full column rank, A^T / |A|^2 at rank 1,
\* and the zero array at rank 0.
pinv(A) ==
    LET G == Gram(A)
    IN  IF Det(G) # 0 THEN FracArray(Dot(Adj(G), Transpose(A)), Det(G))
        ELSE IF Trace(G) = 0 THEN FracArray(Transpose(A), 1)
        ELSE FracArray(Transpose(A), Trace(G))

\* np.dot of two arrays of fractions / of an integer array and fractions.
FracDot(P, Q) == FracArray(Dot(P.num, Q.num), P.den * Q.den)

FracTranspose(P) == [num |-> Transpose(P.num), den |-> P.den]

IntArray(A) == [num |-> A, den |-> 1]

FracMinus(P, Q) ==
    FracArray(Minus(Scale(Q.den, P.num), Scale(P.den, Q.num)), P.den * Q.den)

(***************************************************************************)
(* OLSModel.                                                               *)
(***************************************************************************)
HasAttr(o, a) == a \in DOMAIN o

\* df_model taken as the number of columns of the design.
initialize_ncols(self, design) ==
    LET w == whiten(self, design)
        calc_beta == pinv(w.wX)
    IN  self @@ [design |-> w.X,
                 wdesign |-> w.wX,
                 calc_beta |-> calc_beta,
                 normalized_cov_beta |-> FracDot(calc_beta, FracTranspose(calc_beta)),
                 df_total |-> NRows(w.wX),
                 df_model |-> NCols(w.X),
                 df_resid |-> NRows(w.wX) - NCols(w.X)]

initialize(self, design) ==
    LET w == whiten(self, design)
        calc_beta == pinv(w.wX)
    IN  self @@ [design |-> w.X,
                 wdesign |-> w.wX,
                 calc_beta |-> calc_beta,
                 normalized_cov_beta |-> FracDot(calc_beta, FracTranspose(calc_beta)),
                 df_total |-> NRows(w.wX),
                 df_model |-> matrix_rank(w.X),
                 df_resid |-> NRows(w.wX) - matrix_rank(w.X)]

Return(v) == [kind |-> "return", val |-> v]

Raise(e) == [kind |-> "raise", exc |-> e]

\* A constructor call: the instance as it stands when the call ends, and
\* whether the call raised.
OLSModel_init(design) ==
    [self |-> initialize([cls |-> "OLSModel"], design), out |-> Return("instance")]

(***************************************************************************)
(* ARModel.                                                                *)
(***************************************************************************)
\* np.squeeze(np.asarray(rho)): the axes of length 1 are dropped.
squeeze(a) == [a EXCEPT !.shape = SelectSeq(a.shape, LAMBDA d : d # 1)]

Zeros(n) == [i \in 1..n |-> 0]

\* The shape is tested before the squeeze.
ARModel_init_nosqueeze(design, rho) ==
    IF rho.type = "int"
    THEN IF rho.val < 0
         THEN [self |-> [cls |-> "ARModel", order |-> rho.val],
               out |-> Raise("ValueError")]
         ELSE [self |-> initialize([cls |-> "ARModel", order |-> rho.val,
                                    rho |-> Zeros(rho.val)], design),
               out |-> Return("instance")]
    ELSE IF Len(rho.shape) \notin {0, 1}
         THEN [self |-> [cls |-> "ARModel", rho |-> squeeze(rho)],
               out |-> Raise("ValueError")]
         ELSE [self |-> initialize([cls |-> "ARModel", rho |-> rho.data,
                                    order |-> Len(rho.data)], design),
               out |-> Return("instance")]

\* The integer is taken as a coefficient, like any other scalar.
ARModel_init_intcoef(design, rho) ==
    IF rho.type = "int"
    THEN [self |-> initialize([cls |-> "ARModel", rho |-> <<rho.val>>,
                               order |-> 1], design),
          out |-> Return("instance")]
    ELSE LET a == squeeze(rho)
         IN  IF Len(a.shape) \notin {0, 1}
             THEN [self |-> [cls |-> "ARModel", rho |-> a],
                   out |-> Raise("ValueError")]
             ELSE LET shape == IF a.shape = <<>> THEN <<1>> ELSE a.shape
                  IN  [self |-> initialize([cls |-> "ARModel", rho |-> a.data,
                                            order |-> shape[1]], design),
                       out |-> Return("instance")]

ARModel_init(design, rho) ==
    IF rho.type = "int"
    THEN \* np.zeros raises on a negative length, after self.order is set
         IF rho.val < 0
         THEN [self |-> [cls |-> "ARModel", order |-> rho.val],
               out |-> Raise("ValueError")]
         ELSE [self |-> initialize([cls |-> "ARModel", order |-> rho.val,
                                    rho |-> Zeros(rho.val)], design),
               out |-> Return("instance")]
    ELSE LET a == squeeze(rho)
         IN  IF Len(a.shape) \notin {0, 1}
             THEN [self |-> [cls |-> "ARModel", rho |-> a],
                   out |-> Raise("ValueError")]
             ELSE LET shape == IF a.shape = <<>> THEN <<1>> ELSE a.shape
                  IN  [self |-> initialize([cls |-> "ARModel", rho |-> a.data,
                                            order |-> shape[1]], design),
                       out |-> Return("instance")]

(***************************************************************************)
(* OLSModel.fit and OLSModel.logL.                                         *)
(***************************************************************************)
None == [type |-> "None"]

\* LikelihoodModelResults.__init__(theta, Y, model, cov, dispersion, nuisance)
LikelihoodModelResults_init(self, theta, Y, model, cov, dispersion, nuisance) ==
    self @@ [theta |-> theta, Y |-> Y, model |-> "est", cov |-> cov,
             dispersion |-> dispersion, nuisance |-> nuisance,
             df_total |-> NRows(Y), df_model |-> model.df_model,
             df_resid |-> NRows(Y) - model.df_model]

RegressionResults_init(theta, Y, model, wY, wresid, cov, dispersion, nuisance) ==
    LikelihoodModelResults_init([cls |-> "RegressionResults"],
                                theta, Y, model, cov, dispersion, nuisance)
        @@ [wY |-> wY, wresid |-> wresid, wdesign |-> model.wdesign]

fit(self, Y) ==
    LET w == whiten(self, Y)
        wY == IntArray(w.wX)
        beta == FracDot(self.calc_beta, wY)
        wresid == FracMinus(wY, FracDot(IntArray(self.wdesign), beta))
        sse == SumSq0(wresid)
        dispersion == [j \in 1..Len(sse) |->
                          FracDivInt(sse[j], NRows(self.wdesign) - NCols(self.wdesign))]
    IN  [Y |-> w.X,
         out |-> Return(RegressionResults_init(beta, w.X, self, wY, wresid,
                            self.normalized_cov_beta, dispersion, None))]

\* - n / 2. * np.log(2 * np.pi * sigmasq) - SSE / (2 * sigmasq), kept as
\* the three numbers it is a function of.
LogLf(n, sigmasq, SSE) == [n |-> n, sigmasq |-> sigmasq, SSE |-> SSE]

logL(self, beta, Y, nuisance) ==
    LET X == self.wdesign
        w == whiten(self, Y)
        r == IntArray(Minus(w.wX, Dot(X, beta)))
        n == self.df_total
        SSE == SumSq0(r)
    IN  IF nuisance = None
        THEN [Y |-> w.X,
              out |-> Return([j \in 1..Len(SSE) |->
                                 LogLf(n, FracDivInt(SSE[j], n), SSE[j])])]
        ELSE IF "sigma" \notin DOMAIN nuisance.items
        THEN [Y |-> w.X, out |-> Raise("KeyError")]
        ELSE [Y |-> w.X,
              out |-> Return([j \in 1..Len(SSE) |->
                                 LogLf(n, Frac(nuisance.items.sigma, 1), SSE[j])])]

(***************************************************************************)
(* RegressionResults: the attributes computed on first read and then kept  *)
(* on the instance (setattr_on_read).                                      *)
(***************************************************************************)
RegressionResults_predicted(self) ==
    IF HasAttr(self, "predicted") THEN [self |-> self, out |-> Return(self.predicted)]
    ELSE LET v == FracDot(IntArray(self.wdesign), self.theta)
         IN  [self |-> self @@ [predicted |-> v], out |-> Return(v)]

RegressionResults_SSE(self) ==
    IF HasAttr(self, "SSE") THEN [self |-> self, out |-> Return(self.SSE)]
    ELSE LET v == SumSq0(self.wresid)
         IN  [self |-> self @@ [SSE |-> v], out |-> Return(v)]

RegressionResults_MSE(self) ==
    IF HasAttr(self, "MSE") THEN [self |-> self, out |-> Return(self.MSE)]
    ELSE LET s == RegressionResults_SSE(self)
             v == [j \in 1..Len(s.out.val) |-> FracDivInt(s.out.val[j], self.df_resid)]
         IN  [self |-> s.self @@ [MSE |-> v], out |-> Return(v)]

(***************************************************************************)
(* SimpleRegressionResults.                                                *)
(***************************************************************************)
SimpleRegressionResults_init(results, model) ==
    [cls |-> "SimpleRegressionResults",
     theta |-> results.theta,
     cov |-> results.cov,
     dispersion |-> results.dispersion,
     nuisance |-> results.nuisance,
     df_total |-> NRows(results.Y),
     df_model |-> model.df_model,
     df_resid |-> NRows(results.Y) - model.df_model]

\* The log-likelihood is delegated to the estimator instead of refused.
SimpleRegressionResults_logL_delegate(self, Y) ==
    [self |-> self, out |-> Return("loglf")]

SimpleRegressionResults_logL(self, Y) ==
    [self |-> self, out |-> Raise("ValueError")]

\* self.predicted, read without a call: the bound method of the class.
BoundMethod(name) == [type |-> "method", name |-> name]

\* Y - v for an ndarray Y: defined when v is numeric.
Subtract(Y, v) ==
    IF HasAttr(v, "type") /\ v.type = "method" THEN Raise("TypeError")
    ELSE Return(FracMinus(IntArray(Y), v))

SimpleRegressionResults_predicted(self, model) ==
    IF ~HasAttr(self, "model") THEN Raise("AttributeError")
    ELSE Return(FracDot(IntArray(model.design), self.theta))

SimpleRegressionResults_resid(self, Y) ==
    Subtract(Y, BoundMethod("predicted"))

\* self.resid(Y) * positive_reciprocal(np.sqrt(self.dispersion)): the
\* exception of resid(Y) leaves the call before the product is formed.
SimpleRegressionResults_norm_resid(self, Y) ==
    LET r == SimpleRegressionResults_resid(self, Y)
    IN  IF r.kind = "raise" THEN r
        ELSE Return([resid |-> r.val, dispersion |-> self.dispersion])

(***************************************************************************)
(* The inputs of the calls.                                                *)
(***************************************************************************)
\* Regressors over n observations: constant, linear trend, onset.
Regressors(n) ==
    { [t \in 1..n |-> 1], [t \in 1..n |-> t - 1],
      [t \in 1..n |-> IF t = 1 THEN 1 ELSE 0] }

FromColumns(n, c) == [t \in 1..n |-> [j \in 1..Len(c) |-> c[j][t]]]

Designs ==
    UNION { { FromColumns(n, c) : c \in [1..k -> Regressors(n)] } :
            <<n, k>> \in (1..MaxRows) \X ColCounts }

\* Responses over n observations: constant, linear trend, null.
Responses(n) ==
    { FromColumns(n, <<c>>) :
      c \in { [t \in 1..n |-> 1], [t \in 1..n |-> t - 1], [t \in 1..n |-> 0] } }

Betas(k) == { [l \in 1..k |-> <<b>>] : b \in {0, 1} }

Nuisances == { None, [type |-> "dict", items |-> <<>>],
               [type |-> "dict", items |-> [sigma |-> 1]] }

\* The rho argument: a Python int, or an array-like with a shape (the
\* empty shape for a scalar) and its elements in row-major order.
Shapes == { <<>> } \cup { <<d>> : d \in 0..MaxOrder }
              \cup { <<d, e>> : <<d, e>> \in (1..MaxOrder) \X (1..MaxOrder) }

\* Coefficients: all equal to 1, or 1, 2, ... by lag.
RhoData(m) == { [i \in 1..m |-> 1], [i \in 1..m |-> i] }

RhoArgs ==
    { [type |-> "int", val |-> k] : k \in (-1)..MaxOrder }
    \cup UNION { { [type |-> "array", shape |-> sh, data |-> d] :
                   d \in RhoData(ProdSeq(sh)) } : sh \in Shapes }

(***************************************************************************)
(* The caller: one estimator (est), the result object it holds (obj), the  *)
(* outcome of the latest call (ret) and that call's arguments (arg), with  *)
(* the contents of the array argument after the call.  The caller keeps    *)
(* the latest value only: a call of logL or whiten on the estimator drops  *)
(* the result object, and a compact result replaces the full one it was    *)
(* built from.                                                             *)
(***************************************************************************)
NoObject == [cls |-> "none"]

NoArg == [X |-> <<>>, after |-> <<>>]

Built(o) == HasAttr(o, "df_resid")

Outcome(op, out) == out @@ [op |-> op]

Init ==
    /\ est = NoObject
    /\ obj = NoObject
    /\ ret = [op |-> "none", kind |-> "none"]
    /\ arg = NoArg

NewOLSModel ==
    /\ est = NoObject
    /\ \E design \in Designs :
         LET c == OLSModel_init(design)
         IN  /\ est' = c.self
             /\ ret' = Outcome("OLSModel", c.out)
             /\ arg' = [X |-> design, after |-> c.self.design]
    /\ UNCHANGED obj

NewARModel ==
    /\ est = NoObject
    /\ \E design \in Designs, rho \in RhoArgs :
         LET c == ARModel_init(design, rho)
         IN  /\ est' = c.self
             /\ ret' = Outcome("ARModel", c.out)
             /\ arg' = [X |-> design, rho |-> rho,
                        after |-> IF Built(c.self) THEN c.self.design ELSE design]
    /\ UNCHANGED obj

Fit ==
    /\ Built(est)
    /\ \E Y \in Responses(est.df_total) :
         LET c == fit(est, Y)
         IN  /\ obj' = c.out.val
             /\ ret' = Outcome("fit", Return("RegressionResults"))
             /\ arg' = [X |-> Y, after |-> c.Y]
    /\ UNCHANGED est

LogL ==
    /\ Built(est)
    /\ \E Y \in Responses(est.df_total), beta \in Betas(NCols(est.design)),
          nuisance \in Nuisances :
         LET c == logL(est, beta, Y, nuisance)
         IN  /\ ret' = Outcome("logL", c.out)
             /\ arg' = [X |-> Y, after |-> c.Y, beta |-> beta, nuisance |-> nuisance]
    /\ obj' = NoObject
    /\ UNCHANGED est

Whiten ==
    /\ Built(est)
    /\ \E X \in Responses(est.df_total) :
         LET c == whiten(est, X)
         IN  /\ ret' = Outcome("whiten", Return(c.wX))
             /\ arg' = [X |-> X, after |-> c.X]
    /\ obj' = NoObject
    /\ UNCHANGED est

ReadPredicted ==
    /\ obj.cls = "RegressionResults"
    /\ LET c == RegressionResults_predicted(obj)
       IN  /\ obj' = c.self
           /\ ret' = Outcome("predicted", c.out)
    /\ arg' = NoArg
    /\ UNCHANGED est

ReadSSE ==
    /\ obj.cls = "RegressionResults"
    /\ LET c == RegressionResults_SSE(obj)
       IN  /\ obj' = c.self
           /\ ret' = Outcome("SSE", c.out)
    /\ arg' = NoArg
    /\ UNCHANGED est

ReadMSE ==
    /\ obj.cls = "RegressionResults"
    /\ LET c == RegressionResults_MSE(obj)
       IN  /\ obj' = c.self
           /\ ret' = Outcome("MSE", c.out)
    /\ arg' = NoArg
    /\ UNCHANGED est

NewSimple ==
    /\ obj.cls = "RegressionResults"
    /\ obj' = SimpleRegressionResults_init(obj, est)
    /\ ret' = Outcome("SimpleRegressionResults", Return("instance"))
    /\ arg' = NoArg
    /\ UNCHANGED est

SimpleLogL ==
    /\ obj.cls = "SimpleRegressionResults"
    /\ \E Y \in Responses(obj.df_total) :
         LET c == SimpleRegressionResults_logL(obj, Y)
         IN  /\ obj' = c.self
             /\ ret' = Outcome("Simple.logL", c.out)
             /\ arg' = [X |-> Y, after |-> Y]
    /\ UNCHANGED est

SimplePredicted ==
    /\ obj.cls = "SimpleRegressionResults"
    /\ ret' = Outcome("Simple.predicted", SimpleRegressionResults_predicted(obj, est))
    /\ arg' = NoArg
    /\ UNCHANGED <<est, obj>>

SimpleResid ==
    /\ obj.cls = "SimpleRegressionResults"
    /\ \E Y \in Responses(obj.df_total) :
         /\ ret' = Outcome("Simple.resid", SimpleRegressionResults_resid(obj, Y))
         /\ arg' = [X |-> Y, after |-> Y]
    /\ UNCHANGED <<est, obj>>

SimpleNormResid ==
    /\ obj.cls = "SimpleRegressionResults"
    /\ \E Y \in Responses(obj.df_total) :
         /\ ret' = Outcome("Simple.norm_resid", SimpleRegressionResults_norm_resid(obj, Y))
         /\ arg' = [X |-> Y, after |-> Y]
    /\ UNCHANGED <<est, obj>>

Next ==
    \/ NewOLSModel
    \/ NewARModel
    \/ Fit
    \/ LogL
    \/ Whiten
    \/ ReadPredicted
    \/ ReadSSE
    \/ ReadMSE
    \/ NewSimple
    \/ SimpleLogL
    \/ SimplePredicted
    \/ SimpleResid
    \/ SimpleNormResid

Spec == Init /\ [][Next]_vars

(***************************************************************************)
(* Properties.                                                             *)
(***************************************************************************)
\* The pseudoinverse of the numerics layer satisfies the four
\* Moore-Penrose conditions for the whitened design of every estimator.
PinvIsMoorePenrose ==
    Built(est) =>
        LET A == IntArray(est.wdesign)
            P == est.calc_beta
        IN  /\ FracDot(FracDot(A, P), A) = A
            /\ FracDot(FracDot(P, A), P) = P
            /\ FracTranspose(FracDot(A, P)) = FracDot(A, P)
            /\ FracTranspose(FracDot(P, A)) = FracDot(P, A)

\* C1: on every estimator, in every state after construction and after
\* any calls of fit, logL and whiten, df_total is the number of rows of the
\* design, df_model is the rank of the unwhitened design, and
\* df_resid + df_model = df_total.
DegreesOfFreedom ==
    Built(est) =>
        /\ est.df_total = NRows(est.design)
        /\ est.df_model = matrix_rank(est.design)
        /\ est.df_resid + est.df_model = est.df_total

\* An AR(2) estimator on a rank-deficient design, after a call of logL.
DegreesOfFreedomWitness ==
    /\ Built(est)
    /\ est.cls = "ARModel"
    /\ est.order = 2
    /\ est.df_model < NCols(est.design)
    /\ est.df_model > 0
    /\ ret.op = "logL"

\* Row t of X minus the rho-weighted rows t-1 .. t-min(p, t-1) of X.
LaggedSum(rho, p, X, t, j) ==
    SumSeq([i \in 1..(IF p < t - 1 THEN p ELSE t - 1) |-> rho[i] * X[t - i][j]])

WhitenClosedForm(rho, p, X) ==
    [t \in 1..Len(X) |-> [j \in 1..Len(X[t]) |-> X[t][j] - LaggedSum(rho, p, X, t, j)]]

\* C2: ARModel.whiten(X) has the shape of X and its row t is X[t] minus the
\* sum over the lags i = 1..min(p, t) of rho[i-1] * X[t-i], taken from the
\* unfiltered X; order 0 is the identity and order 1 gives X[0] and then
\* X[t] - r * X[t-1].  The same holds of the whitened design.
WhitenIsLagFilter ==
    /\ (Built(est) /\ est.cls = "ARModel") =>
           est.wdesign = WhitenClosedForm(est.rho, est.order, est.design)
    /\ (ret.op = "whiten" /\ est.cls = "ARModel") =>
           /\ ret.val = WhitenClosedForm(est.rho, est.order, arg.X)
           /\ Len(ret.val) = Len(arg.X)
           /\ est.order = 0 => ret.val = arg.X
           /\ est.order = 1 =>
                  \A t \in 1..Len(arg.X) :
                      ret.val[t][1] = IF t = 1 THEN arg.X[1][1]
                                      ELSE arg.X[t][1] - est.rho[1] * arg.X[t - 1][1]

\* whiten on an AR(2) estimator with rho = [1, 2] and four rows, the first
\* of them not zero: the boundary rows and a full-lag row are all there.
WhitenIsLagFilterWitness ==
    /\ ret.op = "whiten"
    /\ est.cls = "ARModel"
    /\ est.rho = <<1, 2>>
    /\ Len(arg.X) = 4
    /\ arg.X[1][1] # 0
    /\ ret.val # arg.X

\* The number of axes of a shape that are left by a squeeze.
SqueezedNdim(shape) == Cardinality({ i \in DOMAIN shape : shape[i] # 1 })

\* C3: ARModel(design, rho) with an array-like rho raises ValueError iff
\* the squeezed rho has neither 0 nor 1 axes; when it raises, no design,
\* whitened design, pseudoinverse or degrees of freedom are set.
ARShapeError ==
    (ret.op = "ARModel" /\ arg.rho.type = "array") =>
        /\ ret.kind = "raise" <=> SqueezedNdim(arg.rho.shape) \notin {0, 1}
        /\ ret.kind = "raise" =>
               /\ ret.exc = "ValueError"
               /\ DOMAIN est \cap {"design", "wdesign", "calc_beta",
                                   "normalized_cov_beta", "df_total",
                                   "df_model", "df_resid"} = {}

\* The constructor has raised on a rho of shape (2, 2).
ARShapeErrorWitness ==
    /\ ret.op = "ARModel"
    /\ arg.rho.type = "array"
    /\ arg.rho.shape = <<2, 2>>
    /\ ret.kind = "raise"

FirstDifference(X) ==
    [t \in 1..Len(X) |->
        [j \in 1..Len(X[t]) |-> IF t = 1 THEN X[1][j] ELSE X[t][j] - X[t - 1][j]]]

\* C4: after a successful ARModel construction order = len(rho); an int k
\* gives order k and k zeros, a scalar r gives order 1 and rho = [r], a
\* 1-D sequence of length m gives order m and rho equal to it; so
\* ARModel(X, 1) whitens by the identity and ARModel(X, 1.0) by first
\* differences.
ARDispatch ==
    (ret.op = "ARModel" /\ ret.kind = "return") =>
        /\ est.order = Len(est.rho)
        /\ arg.rho.type = "int" =>
               /\ est.order = arg.rho.val
               /\ est.rho = [i \in 1..arg.rho.val |-> 0]
               /\ arg.rho.val = 1 => est.wdesign = est.design
        /\ (arg.rho.type = "array" /\ arg.rho.shape = <<>>) =>
               /\ est.order = 1
               /\ est.rho = <<arg.rho.data[1]>>
               /\ arg.rho.data[1] = 1 => est.wdesign = FirstDifference(est.design)
        /\ (arg.rho.type = "array" /\ Len(arg.rho.shape) = 1) =>
               /\ est.order = arg.rho.shape[1]
               /\ est.rho = arg.rho.data

\* ARModel(X, 1) on a design that first differences would change.
ARDispatchWitness ==
    /\ ret.op = "ARModel"
    /\ ret.kind = "return"
    /\ arg.rho = [type |-> "int", val |-> 1]
    /\ FirstDifference(est.design) # est.design
    /\ est.wdesign = est.design

\* C5: predicted() on a compact result built by its constructor from the
\* full result of an OLS fit returns design . theta, which is the full
\* result's predicted value wdesign . theta.
CompactPredicted ==
    (ret.op = "Simple.predicted" /\ est.cls = "OLSModel") =>
        /\ ret.kind = "return"
        /\ ret.val = FracDot(IntArray(est.design), obj.theta)
        /\ ret.val = FracDot(IntArray(est.wdesign), obj.theta)

\* C6: logL uses sigma^2 = SSE / n when nuisance is not given and when it
\* is given without a sigma estimate, and the supplied sigma otherwise;
\* the call does not fail.
LogLSigma ==
    ret.op = "logL" =>
        /\ ret.kind = "return"
        /\ \A j \in 1..Len(ret.val) :
               ret.val[j].sigmasq =
                   IF arg.nuisance # None /\ "sigma" \in DOMAIN arg.nuisance.items
                   THEN Frac(arg.nuisance.items.sigma, 1)
                   ELSE FracDivInt(ret.val[j].SSE, est.df_total)

\* C7: logL on a compact result raises ValueError for every Y and leaves
\* the instance as it was.
CompactLogLFails ==
    [][ret'.op = "Simple.logL" =>
           /\ ret'.kind = "raise"
           /\ ret'.exc = "ValueError"
           /\ obj' = obj]_vars

\* logL has been called on a compact result.
CompactLogLFailsWitness ==
    /\ ret.op = "Simple.logL"
    /\ obj.cls = "SimpleRegressionResults"
    /\ arg.X # <<>>

FracMulInt(q, k) == Frac(q.num * k, q.den)

\* C8: the dispersion of a fit is SSE / df_resid: dispersion * df_resid is
\* SSE and dispersion is MSE, for every design, rank-deficient ones
\* included (stated for designs with more rows than columns, where both
\* quotients are defined).
DispersionIsMSE ==
    (/\ obj.cls = "RegressionResults"
     /\ NRows(obj.wdesign) > NCols(obj.wdesign)) =>
        \A j \in 1..Len(obj.dispersion) :
            /\ FracMulInt(obj.dispersion[j], est.df_resid) = SumSq0(obj.wresid)[j]
            /\ obj.dispersion[j] = RegressionResults_MSE(obj).out.val[j]

\* The estimator as its constructor builds it from its design and rho.
Constructed(e) ==
    IF e.cls = "ARModel"
    THEN initialize([cls |-> "ARModel", rho |-> e.rho, order |-> e.order], e.design)
    ELSE initialize([cls |-> "OLSModel"], e.design)

\* C9: a call of fit, logL or whiten leaves every attribute of the
\* estimator and the caller's array as they were, so the estimator stays
\* the one its constructor built, and fit(Y) returns the coefficients,
\* whitened residuals and dispersion that the pseudoinverse computed at
\* construction gives for Y.
EstimatorFrame ==
    /\ [][ret'.op \in {"fit", "logL", "whiten"} =>
              /\ est' = est
              /\ arg'.after = arg'.X]_vars
    /\ [](Built(est) =>
              /\ est = Constructed(est)
              /\ ret.op = "fit" =>
                     LET wY == IntArray(whiten(est, arg.X).wX)
                         theta == FracDot(pinv(est.wdesign), wY)
                         wresid == FracMinus(wY, FracDot(IntArray(est.wdesign), theta))
                     IN  /\ obj.theta = theta
                         /\ obj.wresid = wresid
                         /\ obj.dispersion = fit(est, arg.X).out.val.dispersion)

\* fit on an AR(2) estimator with rho = [1, 2], on a response that
\* whitening changes.
EstimatorFrameWitness ==
    /\ ret.op = "fit"
    /\ est.cls = "ARModel"
    /\ est.rho = <<1, 2>>
    /\ obj.wY # IntArray(arg.X)
    /\ Len(arg.X) = 4

\* C10: resid(Y) on a compact result returns Y - predicted() and
\* norm_resid(Y) that residual scaled by dispersion; both complete
\* without error.
CompactResid ==
    /\ ret.op = "Simple.resid" =>
           /\ ret.kind = "return"
           /\ ret.val = FracMinus(IntArray(arg.X),
                                  FracDot(IntArray(est.design), obj.theta))
    /\ ret.op = "Simple.norm_resid" =>
           /\ ret.kind = "return"
           /\ ret.val.resid = FracMinus(IntArray(arg.X),
                                        FracDot(IntArray(est.design), obj.theta))

====
